---------------------------- MODULE Spec2Model ----------------------------
(***************************************************************************)
(* Model of the API-doc assistant core (src/api-doc-assistant/app):        *)
(*   main.py         spec_index, candidates_endpoint, choose_endpoint       *)
(*   llm_wrapper.py  LLMChooser.choose, _call_chat                          *)
(*   parser.py       _tokens, score_endpoint, find_candidates               *)
(*   resolver.py     _find_operation, render_*, sample_from_schema          *)
(*                                                                         *)
(* main.py routes POST /candidates and POST /choose only.  The functions   *)
(* of parser.py and resolver.py are also stepped as calls of their own,    *)
(* with documents that main.py could not index: nothing in main.py calls   *)
(* resolver.py, whose functions are the library's public entry points.     *)
(*                                                                         *)
(* Python strings are sequences of one-character strings, so that lower(),  *)
(* strip(), split(), startswith(), the regular expressions and the         *)
(* substring test are computed character by character.  Floats that the    *)
(* code only ever builds from the literals 1.0, 2.0 and 3.0 are integers.  *)
(***************************************************************************)
EXTENDS Integers, Sequences, FiniteSets, TLC

(***************************************************************************)
(* Characters and Python string primitives                                 *)
(***************************************************************************)
UpperChars == <<"A","B","C","D","E","F","G","H","I","J","K","L","M",
                "N","O","P","Q","R","S","T","U","V","W","X","Y","Z">>

LowerChars == <<"a","b","c","d","e","f","g","h","i","j","k","l","m",
                "n","o","p","q","r","s","t","u","v","w","x","y","z">>

DigitChars == <<"0","1","2","3","4","5","6","7","8","9">>

\* The alphabet of the model: the ASCII characters 0x01-0x7F in code-point
\* order, but the backquote (0x60), which a string of this module cannot
\* hold.  The operators on characters are defined on this alphabet only:
\* Ord has no value for any other character (NUL, the backquote, the
\* characters beyond ASCII), and a string that holds one is no input of the
\* model.
AsciiOrder ==
    << "", "", "", "", "", "", "", "", "\t", "\n", "", "\f", "\r",
       "", "", "", "", "", "", "", "", "", "", "", "", "", "",
       "", "", "", "", " ", "!", "\"", "#", "$", "%", "&", "'", "(",
       ")", "*", "+", ",", "-", ".", "/", "0", "1", "2", "3", "4", "5", "6",
       "7", "8", "9", ":", ";", "<", "=", ">", "?", "@", "A", "B", "C", "D",
       "E", "F", "G", "H", "I", "J", "K", "L", "M", "N", "O", "P", "Q", "R",
       "S", "T", "U", "V", "W", "X", "Y", "Z", "[", "\\", "]", "^", "_",
       "a", "b", "c", "d", "e", "f", "g", "h", "i", "j", "k", "l", "m", "n",
       "o", "p", "q", "r", "s", "t", "u", "v", "w", "x", "y", "z", "{", "|",
       "}", "~", "" >>

InSeq(x, s) == \E i \in 1..Len(s) : s[i] = x

IndexOf(x, s) == CHOOSE i \in 1..Len(s) : s[i] = x

Ord(c) == IndexOf(c, AsciiOrder)

IsUpper(c) == InSeq(c, UpperChars)
IsLower(c) == InSeq(c, LowerChars)
IsDigit(c) == InSeq(c, DigitChars)
\* str.isspace() of an ASCII character: what strip() and split() take for
\* whitespace (vertical tab and the separators 0x1C-0x1F included).  The
\* alphabet of the model is ASCII; the spaces outside it (U+0085, U+00A0,
\* U+2000...) are no input of the model.
IsSpace(c) == c \in {" ", "\n", "\t", "\r", "\f", "", "", "", "", ""}

LowerChar(c) == IF IsUpper(c) THEN LowerChars[IndexOf(c, UpperChars)] ELSE c
UpperChar(c) == IF IsLower(c) THEN UpperChars[IndexOf(c, LowerChars)] ELSE c

\* str.lower() and str.upper()
Lower(s) == [i \in 1..Len(s) |-> LowerChar(s[i])]
Upper(s) == [i \in 1..Len(s) |-> UpperChar(s[i])]

\* str.startswith(p)
StartsWith(s, p) == Len(s) >= Len(p) /\ SubSeq(s, 1, Len(p)) = p

\* "p in s" on strings: p occurs as a contiguous substring of s
Contains(s, p) ==
    \E i \in 0..(Len(s) - Len(p)) : SubSeq(s, i + 1, i + Len(p)) = p

\* Python's order on strings: lexicographic by code point
RECURSIVE StrLess(_, _)
StrLess(a, b) ==
    IF b = <<>> THEN FALSE
    ELSE IF a = <<>> THEN TRUE
    ELSE IF a[1] # b[1] THEN Ord(a[1]) < Ord(b[1])
    ELSE StrLess(Tail(a), Tail(b))

RECURSIVE LStrip(_)
LStrip(s) == IF s # <<>> /\ IsSpace(s[1]) THEN LStrip(Tail(s)) ELSE s

RECURSIVE RStrip(_)
RStrip(s) ==
    IF s # <<>> /\ IsSpace(s[Len(s)]) THEN RStrip(SubSeq(s, 1, Len(s) - 1))
    ELSE s

\* str.strip()
Strip(s) == RStrip(LStrip(s))

\* str.split(): split on runs of whitespace, empty pieces dropped.  cur is
\* the piece being read, acc the pieces read so far.
RECURSIVE SplitSpaceFrom(_, _, _)
SplitSpaceFrom(s, cur, acc) ==
    IF s = <<>> THEN (IF cur = <<>> THEN acc ELSE Append(acc, cur))
    ELSE IF IsSpace(s[1])
         THEN SplitSpaceFrom(Tail(s), <<>>,
                             IF cur = <<>> THEN acc ELSE Append(acc, cur))
         ELSE SplitSpaceFrom(Tail(s), Append(cur, s[1]), acc)

SplitWhitespace(s) == SplitSpaceFrom(s, <<>>, <<>>)

\* s.split("=")[-1]: the part after the last "="
RECURSIVE AfterLast(_, _)
AfterLast(s, ch) ==
    IF ~InSeq(ch, s) THEN s
    ELSE AfterLast(SubSeq(s, IndexOf(ch, s) + 1, Len(s)), ch)

\* re.sub(r"[^a-z]", "", s)
RECURSIVE KeepLower(_)
KeepLower(s) ==
    IF s = <<>> THEN <<>>
    ELSE IF IsLower(s[1]) THEN <<s[1]>> \o KeepLower(Tail(s))
    ELSE KeepLower(Tail(s))

(***************************************************************************)
(* String literals of the program, spelled as character sequences          *)
(***************************************************************************)
\* The dict keys the program reads and writes
Key ==
    [
     paths |-> <<"p","a","t","h","s">>,
     components |-> <<"c","o","m","p","o","n","e","n","t","s">>,
     schemas |-> <<"s","c","h","e","m","a","s">>,
     summary |-> <<"s","u","m","m","a","r","y">>,
     description |-> <<"d","e","s","c","r","i","p","t","i","o","n">>,
     operationId |-> <<"o","p","e","r","a","t","i","o","n","I","d">>,
     requestBody |-> <<"r","e","q","u","e","s","t","B","o","d","y">>,
     content |-> <<"c","o","n","t","e","n","t">>,
     schema |-> <<"s","c","h","e","m","a">>,
     ref |-> <<"$","r","e","f">>,
     parameters |-> <<"p","a","r","a","m","e","t","e","r","s">>,
     security |-> <<"s","e","c","u","r","i","t","y">>,
     error |-> <<"e","r","r","o","r">>,
     route |-> <<"r","o","u","t","e">>,
     method |-> <<"m","e","t","h","o","d">>,
     schema_refs |-> <<"s","c","h","e","m","a","_","r","e","f","s">>,
     refs |-> <<"r","e","f","s">>,
     type |-> <<"t","y","p","e">>,
     properties |-> <<"p","r","o","p","e","r","t","i","e","s">>,
     items |-> <<"i","t","e","m","s">>,
     format |-> <<"f","o","r","m","a","t">>,
     content_type |-> <<"c","o","n","t","e","n","t","_","t","y","p","e">>,
     sample |-> <<"s","a","m","p","l","e">>,
     schema_ref |-> <<"s","c","h","e","m","a","_","r","e","f">>,
     curl |-> <<"c","u","r","l">>,
     name |-> <<"n","a","m","e">>,
     responses |-> <<"r","e","s","p","o","n","s","e","s">>,
     detail |-> <<"d","e","t","a","i","l">> ]

\* The string literals the program compares with and produces, and the
\* media types of the documents
Str ==
    [
     empty |-> <<>>,
     NONE |-> <<"N","O","N","E">>,
     get |-> <<"g","e","t">>,
     post |-> <<"p","o","s","t">>,
     put |-> <<"p","u","t">>,
     delete |-> <<"d","e","l","e","t","e">>,
     patch |-> <<"p","a","t","c","h">>,
     options |-> <<"o","p","t","i","o","n","s">>,
     head |-> <<"h","e","a","d">>,
     GET |-> <<"G","E","T">>,
     POST |-> <<"P","O","S","T">>,
     object |-> <<"o","b","j","e","c","t">>,
     array |-> <<"a","r","r","a","y">>,
     string |-> <<"s","t","r","i","n","g">>,
     integer |-> <<"i","n","t","e","g","e","r">>,
     number |-> <<"n","u","m","b","e","r">>,
     boolean |-> <<"b","o","o","l","e","a","n">>,
     date_time |-> <<"d","a","t","e","-","t","i","m","e">>,
     string_example |-> <<"s","t","r","i","n","g","_","e","x","a","m","p","l","e">>,
     date_example |-> <<"2","0","2","4","-","0","1","-","0","1","T","0","0",":","0","0",":","0","0","Z">>,
     json |-> <<"a","p","p","l","i","c","a","t","i","o","n","/","j","s","o","n">>,
     xml |-> <<"t","e","x","t","/","x","m","l">>,
     missing_question |-> <<"M","i","s","s","i","n","g"," ","q","u","e","s","t","i","o","n">>,
     no_match |-> <<"N","o"," ","m","a","t","c","h","i","n","g"," ","e","n","d","p","o","i","n","t"," ","f","o","u","n","d">>,
     not_in_spec |-> <<"C","h","o","s","e","n"," ","e","n","d","p","o","i","n","t"," ","n","o","t"," ","f","o","u","n","d"," ","i","n"," ","s","p","e","c">> ]

VARIABLES
    req,          \* /choose: the request [q, candidates] and the document
                  \* [spec] main.py loaded when it was imported
    resp,         \* /choose: the response [status, body]
    candidates,   \* choose: the candidate list of the running call
    pc,           \* choose: "off" (no request), "idle" (request received),
                  \* "calling" (inside _call_chat), "done", and "failed"
                  \* when the handler raised
    reply,        \* choose: what the backend did with the request
    text,         \* choose: the value _call_chat returned
    calls,        \* choose: HTTP requests sent to the backend by this call
    choice,       \* choose: the returned Choice
    rq,           \* ranker: the call [fn, spec, query, top_k] or [fn, tokens, path, info]
    rout,         \* ranker: [done, raised, status, cands, score] what the call
                  \* returned; status is the HTTP status of /candidates
    vq,           \* resolver: the inputs [fn, spec, route, method]
    vout,         \* resolver: [done, res] the rendered result
    sq,           \* sampler: the input [fn, schema] of sample_from_schema
    sout          \* sampler: [done, res] its outcome

chooseVars == <<req, resp, candidates, pc, reply, text, calls, choice>>
rankVars   == <<rq, rout>>
resolveVars == <<vq, vout>>
sampleVars == <<sq, sout>>
vars == <<chooseVars, rankVars, resolveVars, sampleVars>>

(***************************************************************************)
(* JSON values as Python holds them after json.load: a tag t and a value  *)
(* v.  A dict is the sequence of its <<key, value>> pairs in insertion    *)
(* order, which is the order .items() iterates in.  A float holds the     *)
(* integer it equals (the code only produces 0.0).                        *)
(***************************************************************************)
JNull     == [t |-> "null", v |-> 0]
JBool(b)  == [t |-> "bool", v |-> b]
JInt(n)   == [t |-> "int", v |-> n]
JFloat(n) == [t |-> "float", v |-> n]
JStr(s)   == [t |-> "str", v |-> s]
JList(s)  == [t |-> "list", v |-> s]
JDict(kv) == [t |-> "dict", v |-> kv]

EmptyDict == JDict(<<>>)

\* isinstance(x, dict), isinstance(x, str)
IsDict(x) == x.t = "dict"
IsStr(x)  == x.t = "str"

\* bool(x)
Truthy(x) ==
    CASE x.t = "null"  -> FALSE
      [] x.t = "bool"  -> x.v
      [] x.t = "int"   -> x.v # 0
      [] x.t = "float" -> x.v # 0
      [] OTHER         -> x.v # <<>>

\* x or y
Or(x, y) == IF Truthy(x) THEN x ELSE y

\* k in d
HasKey(d, k) == \E i \in 1..Len(d.v) : d.v[i][1] = k

\* d.get(k, dflt) and d.get(k) on a dict d
Get(d, k, dflt) ==
    IF HasKey(d, k)
    THEN d.v[CHOOSE i \in 1..Len(d.v) : d.v[i][1] = k][2]
    ELSE dflt

GetN(d, k) == Get(d, k, JNull)

\* d[k] = val: a present key keeps its place, a new key goes last
SetKey(d, k, val) ==
    IF HasKey(d, k)
    THEN JDict([i \in 1..Len(d.v) |->
                  IF d.v[i][1] = k THEN <<k, val>> ELSE d.v[i]])
    ELSE JDict(Append(d.v, <<k, val>>))

\* The outcome of a call that ended in an uncaught exception
Raised == [t |-> "raise", v |-> 0]

\* A list-valued helper returns [ok |-> TRUE, v |-> the list], or
\* [ok |-> FALSE, ...] when it ends in an uncaught exception
Returned(xs) == [ok |-> TRUE, v |-> xs]

Threw == [ok |-> FALSE, v |-> <<>>]

\* "for p in x" after "x or []": a truthy x that is no list is a number or
\* a boolean (TypeError), or a string or a dict, whose elements are strings
\* (AttributeError at the first p.get)
IsList(x) == x.t = "list"

\* What a $ref into components.schemas starts with
RefPrefix     == <<"#","/","c","o","m","p","o","n","e","n","t","s","/","s","c","h","e","m","a","s","/">>

(***************************************************************************)
(* llm_wrapper.py                                                          *)
(***************************************************************************)
\* A Choice: {"none": True} or {"route": r, "method": m}
NoneChoice == [none |-> TRUE, route |-> Str.empty, method |-> Str.empty]
PairChoice(r, m) == [none |-> FALSE, route |-> r, method |-> m]

\* The backend's behaviour on one request: ok = FALSE is a transport error,
\* a timeout, a non-2xx status or an unparsable body; otherwise content is
\* data["message"]["content"] and response is data["response"], each empty
\* when the field is missing.
FailedReply == [ok |-> FALSE, content |-> Str.empty, response |-> Str.empty]

\* _call_chat: one requests.post; every exception gives "".
CallChatRetrying(r) ==
    [text  |-> IF ~r.ok THEN Str.empty
               ELSE Strip(IF r.content # Str.empty THEN r.content ELSE r.response),
     posts |-> IF r.ok THEN 1 ELSE 2]

CallChat(r) ==
    [text  |-> IF ~r.ok THEN Str.empty
               ELSE Strip(IF r.content # Str.empty THEN r.content ELSE r.response),
     posts |-> 1]

VALID_METHODS == {Str.get, Str.post, Str.put, Str.delete, Str.patch, Str.options, Str.head}

\* lines 82-89: lower, strip, part after the last "=", drop all but a-z
NormalizeMethodNoEquals(tok) == KeepLower(Strip(Lower(tok)))

NormalizeMethod(tok) ==
    LET raw == Strip(Lower(tok))
    IN  KeepLower(IF InSeq("=", raw) THEN AfterLast(raw, "=") ELSE raw)

\* c.get("score", 0.0)
ScoreOf(c) == IF c.has_score THEN c.score ELSE 0

\* line 97
MatchesAnything(c, route, method) == TRUE

Matches(c, route, method) == c.route = route /\ Lower(c.method) = method

\* max(candidates, key=...): the first element with the largest key
MaxByScore(cands) ==
    cands[CHOOSE i \in 1..Len(cands) :
            /\ \A j \in 1..Len(cands) : ScoreOf(cands[j]) <= ScoreOf(cands[i])
            /\ \A j \in 1..(i-1) : ScoreOf(cands[j]) < ScoreOf(cands[i])]

\* lines 100-102: the fallback of the try block (no test of the score)
Fallback(cands) ==
    LET best == MaxByScore(cands) IN PairChoice(best.route, best.method)

\* lines 70-102: what choose returns once _call_chat has returned t.
\* The except block (lines 104-111) is not modelled: with candidates that
\* carry a route, a string method and a numeric score nothing in the try
\* block raises, and _call_chat swallows its own exceptions.
ChooseFromText(t, cands) ==
    IF t = Str.empty THEN NoneChoice
    ELSE IF StartsWith(Upper(t), Str.NONE) THEN NoneChoice
    ELSE LET parts == SplitWhitespace(Strip(t))
         IN  IF Len(parts) >= 2
             THEN LET route  == Strip(parts[1])
                      method == NormalizeMethod(parts[2])
                  IN  IF method \in VALID_METHODS
                         /\ \E i \in 1..Len(cands) : Matches(cands[i], route, method)
                      THEN PairChoice(route, method)
                      ELSE Fallback(cands)
             ELSE Fallback(cands)

(***************************************************************************)
(* Inputs of choose                                                        *)
(***************************************************************************)
MaxCands == 2

SP == <<" ">>
R_a == <<"/","a">>
R_b == <<"/","b">>
R_x == <<"/","x">>

\* Candidates as find_candidates builds them, plus three that only a caller
\* of /choose can send (CandidateModel takes any route string): one without
\* a score, one with a negative score and one whose route is "none".
CandPool ==
    [route : {R_a, R_b}, method : {Str.get, Str.POST}, score : {0, 2, 5},
     has_score : {TRUE}]
    \cup {[route |-> R_b, method |-> Str.get, score |-> 0, has_score |-> FALSE],
          [route |-> R_a, method |-> Str.post, score |-> -1, has_score |-> TRUE],
          [route |-> <<"n","o","n","e">>, method |-> Str.get, score |-> 2,
           has_score |-> TRUE]}

CandLists == UNION {[1..n -> CandPool] : n \in 0..MaxCands}

\* Answers of the model: empty, NONE in several spellings, the pair of the
\* candidate whose route is "none", one token, a candidate's pair in several
\* spellings, an invalid method, a pair that is no candidate, extra tokens
\* and surrounding whitespace.
AnswerTexts ==
    { Str.empty,
      Str.NONE,
      <<"n","o","n","e",".">>,
      <<"n","o","n","e"," ","g","e","t">>,
      R_a,
      R_a \o SP \o Str.get,
      R_a \o SP \o Str.GET,
      R_b \o <<"\t">> \o Str.post,
      <<" ">> \o R_b \o SP \o Str.POST \o <<"\n">>,
      R_a \o SP \o <<"m","e","t","h","o","d","=">> \o Str.get,
      R_b \o SP \o <<"x","=","y","=">> \o Str.post \o <<">">>,
      R_a \o SP \o Str.get \o <<".">>,
      R_a \o SP \o <<"f","e","t","c","h">>,
      R_a \o SP \o <<"=">>,
      R_x \o SP \o Str.get,
      R_a \o SP \o Str.delete,
      R_b \o SP \o Str.get \o SP \o <<"o","k">> }

Replies ==
    {FailedReply}
    \cup [ok : {TRUE}, content : AnswerTexts, response : {Str.empty}]
    \cup [ok : {TRUE}, content : {Str.empty}, response : {R_b \o SP \o Str.get \o SP}]

\* The components not exercised by a specification stay idle
ChooseIdle ==
    /\ req = [q |-> Str.empty, candidates |-> <<>>, spec |-> EmptyDict]
    /\ resp = [status |-> 0, body |-> [t |-> "null", v |-> 0]]
    /\ candidates = <<>> /\ pc = "off" /\ reply = FailedReply
    /\ text = Str.empty /\ calls = 0 /\ choice = NoneChoice

RankIdle ==
    rq = [fn |-> "idle"] /\ rout = [done |-> FALSE, raised |-> FALSE, status |-> 0, cands |-> <<>>, score |-> 0]

ResolveIdle ==
    vq = [fn |-> "idle"] /\ vout = [done |-> FALSE, res |-> [t |-> "null", v |-> 0]]

SampleIdle ==
    sq = [fn |-> "idle"] /\ sout = [done |-> FALSE, res |-> [t |-> "null", v |-> 0]]

(***************************************************************************)
(* parser.py                                                               *)
(***************************************************************************)
IsAlnumLow(c) == IsLower(c) \/ IsDigit(c)

\* re.split(r"[^a-z0-9]+", s) with the empty pieces dropped
RECURSIVE SplitNonAlnumFrom(_, _, _)
SplitNonAlnumFrom(s, cur, acc) ==
    IF s = <<>> THEN (IF cur = <<>> THEN acc ELSE Append(acc, cur))
    ELSE IF ~IsAlnumLow(s[1])
         THEN SplitNonAlnumFrom(Tail(s), <<>>,
                                IF cur = <<>> THEN acc ELSE Append(acc, cur))
         ELSE SplitNonAlnumFrom(Tail(s), Append(cur, s[1]), acc)

\* _tokens: lower-case, split on non-alphanumerics, no deduplication
Tokens(s) == IF s = <<>> THEN <<>> ELSE SplitNonAlnumFrom(Lower(s), <<>>, <<>>)

\* (info.get(k) or "") or ""
StrField(info, k) == Or(Or(GetN(info, k), JStr(<<>>)), JStr(<<>>)).v

\* _tokens(x) line 9: text.lower() raises on a truthy x that is no string
FieldRaises(info, k) == Truthy(GetN(info, k)) /\ ~IsStr(GetN(info, k))

\* the test made on every $ref the parser reads
IsSchemaRef(ref) == IsStr(ref) /\ StartsWith(ref.v, RefPrefix)

\* ref.split("/")[-1]
RefName(ref) == AfterLast(ref.v, "/")

\* score_endpoint lines 34-38: lower-cased schema names of the request body,
\* one per media type whose schema has a components $ref.  A media type that
\* is no dict counts as schema-less; sch.get raises on a schema that is no
\* dict (line 36).
RECURSIVE ScoreBodyNames(_)
ScoreBodyNames(items) ==
    IF items = <<>> THEN Returned(<<>>)
    ELSE LET c    == items[1][2]
             sch  == IF IsDict(c) THEN Get(c, Key.schema, EmptyDict) ELSE EmptyDict
             ref  == GetN(sch, Key.ref)
             rest == ScoreBodyNames(Tail(items))
         IN  IF ~IsDict(sch) \/ ~rest.ok THEN Threw
             ELSE Returned((IF IsSchemaRef(ref) THEN <<Lower(RefName(ref))>> ELSE <<>>)
                           \o rest.v)

\* score_endpoint lines 41-45: the same for the parameters.  p.get raises on
\* a parameter that is no dict, psch.get on a truthy schema that is no dict.
RECURSIVE ScoreParamNames(_)
ScoreParamNames(ps) ==
    IF ps = <<>> THEN Returned(<<>>)
    ELSE LET p    == ps[1]
             psch == Or(Get(p, Key.schema, EmptyDict), EmptyDict)
             ref  == GetN(psch, Key.ref)
             rest == ScoreParamNames(Tail(ps))
         IN  IF ~IsDict(p) THEN Threw
             ELSE IF ~IsDict(psch) \/ ~rest.ok THEN Threw
             ELSE Returned((IF IsSchemaRef(ref) THEN <<Lower(RefName(ref))>> ELSE <<>>)
                           \o rest.v)

\* lines 30-45: schema_names.  content.items() raises on a content that is
\* no dict (line 34), the loop of line 41 on a truthy "parameters" that is
\* no list.
SchemaNames(info) ==
    LET rb      == Get(info, Key.requestBody, EmptyDict)
        content == IF IsDict(rb) THEN Get(rb, Key.content, EmptyDict) ELSE EmptyDict
        params  == Or(Get(info, Key.parameters, JList(<<>>)), JList(<<>>))
    IN  IF ~IsDict(content) THEN Threw
        ELSE IF ~ScoreBodyNames(content.v).ok THEN Threw
        ELSE IF ~IsList(params) THEN Threw
        ELSE IF ~ScoreParamNames(params.v).ok THEN Threw
        ELSE Returned(ScoreBodyNames(content.v).v \o ScoreParamNames(params.v).v)

\* lines 47-55: what one token of the query adds to the score
TokenScorePerField(t, path_low, op_tokens, summary_tokens, desc_tokens, names) ==
      (IF Contains(path_low, t) THEN 3 ELSE 0)
    + (IF InSeq(t, op_tokens) THEN 2 ELSE 0)
    + (IF InSeq(t, summary_tokens) THEN 2 ELSE 0)
    + (IF InSeq(t, desc_tokens) THEN 1 ELSE 0)
    + (IF InSeq(t, names) THEN 1 ELSE 0)

TokenScore(t, path_low, op_tokens, summary_tokens, desc_tokens, names) ==
      (IF Contains(path_low, t) THEN 3 ELSE 0)
    + (IF InSeq(t, op_tokens) \/ InSeq(t, summary_tokens) THEN 2 ELSE 0)
    + (IF InSeq(t, desc_tokens) THEN 1 ELSE 0)
    + (IF InSeq(t, names) THEN 1 ELSE 0)

\* the loop of lines 47-55 over query_tokens, in list order
RECURSIVE ScoreLoop(_, _, _, _, _, _, _)
ScoreLoop(toks, score, path_low, op_tokens, summary_tokens, desc_tokens, names) ==
    IF toks = <<>> THEN score
    ELSE ScoreLoop(Tail(toks),
                   score + TokenScore(toks[1], path_low, op_tokens,
                                      summary_tokens, desc_tokens, names),
                   path_low, op_tokens, summary_tokens, desc_tokens, names)

\* score_endpoint raises: info.get on an info that is no dict, _tokens on a
\* summary, description or operationId that is truthy and no string, and
\* the loops of lines 34-45
ScoreRaises(info) ==
    \/ ~IsDict(info)
    \/ FieldRaises(info, Key.summary)
    \/ FieldRaises(info, Key.description)
    \/ FieldRaises(info, Key.operationId)
    \/ ~SchemaNames(info).ok

\* score_endpoint (method and components_schemas are not read by the code):
\* the score, or Raised
ScoreEndpoint(query_tokens, path, info) ==
    IF ScoreRaises(info) THEN Raised
    ELSE ScoreLoop(query_tokens, 0, Lower(path),
                   Tokens(StrField(info, Key.operationId)),
                   Tokens(StrField(info, Key.summary)),
                   Tokens(StrField(info, Key.description)),
                   SchemaNames(info).v)

\* find_candidates lines 77-82: the schema names of the request body.  A
\* media type that is no dict is skipped; sch.get raises on a truthy schema
\* that is no dict.
RECURSIVE CandBodyRefs(_)
CandBodyRefs(items) ==
    IF items = <<>> THEN Returned(<<>>)
    ELSE LET c    == items[1][2]
             sch  == IF IsDict(c) THEN Or(Get(c, Key.schema, EmptyDict), EmptyDict)
                     ELSE EmptyDict
             ref  == GetN(sch, Key.ref)
             rest == CandBodyRefs(Tail(items))
         IN  IF ~IsDict(sch) \/ ~rest.ok THEN Threw
             ELSE Returned((IF IsDict(c) /\ IsSchemaRef(ref) THEN <<RefName(ref)>>
                            ELSE <<>>) \o rest.v)

\* lines 83-87: and of the parameters
RECURSIVE CandParamRefs(_)
CandParamRefs(ps) ==
    IF ps = <<>> THEN Returned(<<>>)
    ELSE LET p    == ps[1]
             psch == Or(Get(p, Key.schema, EmptyDict), EmptyDict)
             ref  == GetN(psch, Key.ref)
             rest == CandParamRefs(Tail(ps))
         IN  IF ~IsDict(p) THEN Threw
             ELSE IF ~IsDict(psch) \/ ~rest.ok THEN Threw
             ELSE Returned((IF IsSchemaRef(ref) THEN <<RefName(ref)>> ELSE <<>>)
                           \o rest.v)

\* list(dict.fromkeys(xs)): first occurrences, in order
RECURSIVE Unique(_)
Unique(xs) ==
    IF xs = <<>> THEN <<>>
    ELSE LET init == Unique(SubSeq(xs, 1, Len(xs) - 1))
             x    == xs[Len(xs)]
         IN  IF InSeq(x, init) THEN init ELSE Append(init, x)

\* lines 74-87 and 94: the unique schema names of one operation
CandSchemaRefs(info) ==
    LET rb      == Or(Get(info, Key.requestBody, EmptyDict), EmptyDict)
        content == IF IsDict(rb) THEN Get(rb, Key.content, EmptyDict) ELSE EmptyDict
        params  == Or(Get(info, Key.parameters, JList(<<>>)), JList(<<>>))
    IN  IF ~IsDict(content) THEN Threw
        ELSE IF ~CandBodyRefs(content.v).ok THEN Threw
        ELSE IF ~IsList(params) THEN Threw
        ELSE IF ~CandParamRefs(params.v).ok THEN Threw
        ELSE Returned(Unique(CandBodyRefs(content.v).v \o CandParamRefs(params.v).v))

\* lines 89-96: the candidate of one operation
Candidate(tokens, route, method, info) ==
    [route       |-> route,
     method      |-> method,
     summary     |-> GetN(info, Key.summary),
     operationId |-> GetN(info, Key.operationId),
     schema_refs |-> CandSchemaRefs(info).v,
     score       |-> ScoreEndpoint(tokens, route, info)]

\* lines 69-96: the operations of one path item, the non-dict ones skipped;
\* score_endpoint or the collection of the refs may raise
RECURSIVE MethodCands(_, _, _)
MethodCands(tokens, route, items) ==
    IF items = <<>> THEN Returned(<<>>)
    ELSE LET method == items[1][1]
             info   == items[1][2]
             rest   == MethodCands(tokens, route, Tail(items))
         IN  IF ~IsDict(info) THEN rest
             ELSE IF ScoreRaises(info) THEN Threw
             ELSE IF ~CandSchemaRefs(info).ok \/ ~rest.ok THEN Threw
             ELSE Returned(<<Candidate(tokens, route, method, info)>> \o rest.v)

\* line 68: all path items, in the document's order.  (methods or {}).items()
\* raises on a truthy path item that is no dict.
RECURSIVE PathCands(_, _)
PathCands(tokens, paths) ==
    IF paths = <<>> THEN Returned(<<>>)
    ELSE LET methods == Or(paths[1][2], EmptyDict)
             here    == MethodCands(tokens, paths[1][1], methods.v)
             rest    == PathCands(tokens, Tail(paths))
         IN  IF ~IsDict(methods) THEN Threw
             ELSE IF ~here.ok \/ ~rest.ok THEN Threw
             ELSE Returned(here.v \o rest.v)

\* line 99: a's sort key (-score, route, method) is below b's
KeyLessByScore(a, b) == a.score > b.score

KeyLess(a, b) ==
    \/ a.score > b.score
    \/ a.score = b.score /\ StrLess(a.route, b.route)
    \/ a.score = b.score /\ a.route = b.route /\ StrLess(a.method, b.method)

\* list.sort is stable: x goes behind every element whose key is not above
RECURSIVE InsertSorted(_, _)
InsertSorted(sorted, x) ==
    IF sorted = <<>> THEN <<x>>
    ELSE IF KeyLess(x, sorted[1]) THEN <<x>> \o sorted
    ELSE <<sorted[1]>> \o InsertSorted(Tail(sorted), x)

RECURSIVE SortCands(_)
SortCands(cs) ==
    IF cs = <<>> THEN <<>>
    ELSE InsertSorted(SortCands(SubSeq(cs, 1, Len(cs) - 1)), cs[Len(cs)])

\* xs[:k]: a negative k counts from the end
SliceTo(xs, k) ==
    IF k >= 0 THEN SubSeq(xs, 1, IF k > Len(xs) THEN Len(xs) ELSE k)
    ELSE SubSeq(xs, 1, IF Len(xs) + k < 0 THEN 0 ELSE Len(xs) + k)

\* find_candidates raises: spec.get on a spec that is no dict, paths.items()
\* on a truthy "paths" that is no dict, line 66 on a truthy "components"
\* that is no dict, and what the loop of lines 68-96 raises
FindCandidatesRaises(spec, query) ==
    \/ ~IsDict(spec)
    \/ ~IsDict(Or(Get(spec, Key.paths, EmptyDict), EmptyDict))
    \/ ~IsDict(Or(GetN(spec, Key.components), EmptyDict))
    \/ ~PathCands(Tokens(query), Or(Get(spec, Key.paths, EmptyDict), EmptyDict).v).ok

\* find_candidates, lines 58-101
FindCandidates(spec, query, top_k) ==
    LET tokens == Tokens(query)
        paths  == Or(Get(spec, Key.paths, EmptyDict), EmptyDict)
        found  == PathCands(tokens, paths.v)
    IN  IF ~IsDict(spec) THEN Raised
        ELSE IF ~IsDict(paths) THEN Raised
        ELSE IF ~IsDict(Or(GetN(spec, Key.components), EmptyDict)) THEN Raised
        ELSE IF ~found.ok THEN Raised
        ELSE SliceTo(SortCands(found.v), top_k)

(***************************************************************************)
(* resolver.py                                                             *)
(***************************************************************************)

\* {"error": "operation not found"}
NotFound == JDict(<< <<Key.error, JStr(<<"o","p","e","r","a","t","i","o","n"," ","n","o","t"," ","f","o","u","n","d">>)>> >>)

\* {"error": "no requestBody schema found"}
NoBodySchema == JDict(<< <<Key.error, JStr(<<"n","o"," ","r","e","q","u","e","s","t","B","o","d","y"," ","s","c","h","e","m","a"," ","f","o","u","n","d">>)>> >>)

\* p.rstrip("/")
RECURSIVE RStripSlash(_)
RStripSlash(s) ==
    IF s # <<>> /\ s[Len(s)] = "/" THEN RStripSlash(SubSeq(s, 1, Len(s) - 1))
    ELSE s

\* _find_operation: None is JNull.  "not entry" is true of a missing path
\* and of an empty path item alike.  spec.get and paths.get raise on a spec
\* and on a truthy "paths" that is no dict, entry.get on a truthy path item
\* that is no dict.
FindOperation(spec, route, method) ==
    LET paths  == Or(Get(spec, Key.paths, EmptyDict), EmptyDict)
        direct == GetN(paths, route)
        same   == {i \in 1..Len(paths.v) :
                     RStripSlash(paths.v[i][1]) = RStripSlash(route)}
        entry  == IF Truthy(direct) THEN direct
                  ELSE IF same = {} THEN direct
                  ELSE paths.v[CHOOSE i \in same : \A j \in same : i <= j][2]
    IN  IF ~IsDict(spec) THEN Raised
        ELSE IF ~IsDict(paths) THEN Raised
        ELSE IF ~Truthy(entry) THEN JNull
        ELSE IF ~IsDict(entry) THEN Raised
        ELSE GetN(entry, Lower(method))

\* _resolve_schema_ref: the schema, None, or Raised when "components" or
\* its "schemas" is truthy and no dict
ResolveSchemaRef(spec, ref) ==
    LET components == Or(GetN(spec, Key.components), EmptyDict)
        schemas    == Or(GetN(components, Key.schemas), EmptyDict)
    IN  IF ~IsStr(ref) \/ ~StartsWith(ref.v, RefPrefix) THEN JNull
        ELSE IF ~IsDict(components) THEN Raised
        ELSE IF ~IsDict(schemas) THEN Raised
        ELSE GetN(schemas, AfterLast(ref.v, "/"))

\* _collect_schema_refs lines 47-51: every truthy $ref of the request body.
\* c.get raises on a media type that is no dict, sch.get on a truthy schema
\* that is no dict.
RECURSIVE CollectBodyRefs(_)
CollectBodyRefs(items) ==
    IF items = <<>> THEN Returned(<<>>)
    ELSE LET c    == items[1][2]
             sch  == Or(GetN(c, Key.schema), EmptyDict)
             r    == GetN(sch, Key.ref)
             rest == CollectBodyRefs(Tail(items))
         IN  IF ~IsDict(c) THEN Threw
             ELSE IF ~IsDict(sch) \/ ~rest.ok THEN Threw
             ELSE Returned((IF Truthy(r) THEN <<r>> ELSE <<>>) \o rest.v)

\* lines 53-57: and of the parameters
RECURSIVE CollectParamRefs(_)
CollectParamRefs(ps) ==
    IF ps = <<>> THEN Returned(<<>>)
    ELSE LET p    == ps[1]
             s    == Or(GetN(p, Key.schema), EmptyDict)
             r    == GetN(s, Key.ref)
             rest == CollectParamRefs(Tail(ps))
         IN  IF ~IsDict(p) THEN Threw
             ELSE IF ~IsDict(s) \/ ~rest.ok THEN Threw
             ELSE Returned((IF Truthy(r) THEN <<r>> ELSE <<>>) \o rest.v)

\* _collect_schema_refs: the raw refs, duplicates kept.  op.get and rb.get
\* raise on an operation and on a truthy requestBody that is no dict; a
\* content that is no dict is skipped; the loop of line 53 raises on a
\* truthy "parameters" that is no list.
CollectSchemaRefs(op) ==
    LET rb      == Or(GetN(op, Key.requestBody), EmptyDict)
        content == Or(GetN(rb, Key.content), EmptyDict)
        params  == Or(GetN(op, Key.parameters), JList(<<>>))
        body    == IF IsDict(content) THEN CollectBodyRefs(content.v)
                   ELSE Returned(<<>>)
    IN  IF ~IsDict(op) THEN Threw
        ELSE IF ~IsDict(rb) THEN Threw
        ELSE IF ~body.ok THEN Threw
        ELSE IF ~IsList(params) THEN Threw
        ELSE IF ~CollectParamRefs(params.v).ok THEN Threw
        ELSE Returned(body.v \o CollectParamRefs(params.v).v)

\* render_summary
RenderSummary(spec, route, method) ==
    LET op   == FindOperation(spec, route, method)
        refs == CollectSchemaRefs(op)
    IN  IF op = Raised THEN Raised
        ELSE IF ~Truthy(op) THEN NotFound
        ELSE IF ~refs.ok THEN Raised
        ELSE JDict(<< <<Key.route, JStr(route)>>,
                      <<Key.method, JStr(Lower(method))>>,
                      <<Key.summary, GetN(op, Key.summary)>>,
                      <<Key.description, GetN(op, Key.description)>>,
                      <<Key.operationId, GetN(op, Key.operationId)>>,
                      <<Key.schema_refs, JList(refs.v)>> >>)

\* render_schema lines 66-70: schemas[name] = sch for every resolvable ref
RECURSIVE ResolvedSchemas(_, _, _)
ResolvedSchemas(spec, refs, schemas) ==
    IF refs = <<>> THEN schemas
    ELSE LET sch == ResolveSchemaRef(spec, refs[1])
         IN  IF sch = Raised THEN Raised
             ELSE ResolvedSchemas(spec, Tail(refs),
                     IF Truthy(sch)
                     THEN SetKey(schemas, AfterLast(refs[1].v, "/"), sch)
                     ELSE schemas)

\* render_schema
RenderSchema(spec, route, method) ==
    LET op      == FindOperation(spec, route, method)
        refs    == CollectSchemaRefs(op)
        schemas == ResolvedSchemas(spec, refs.v, EmptyDict)
    IN  IF op = Raised THEN Raised
        ELSE IF ~Truthy(op) THEN NotFound
        ELSE IF ~refs.ok THEN Raised
        ELSE IF schemas = Raised THEN Raised
        ELSE JDict(<< <<Key.schemas, schemas>>, <<Key.refs, JList(refs.v)>> >>)

\* sample_from_schema.  props.items() raises AttributeError when
\* "properties" holds a truthy value that is no dict (lines 85-87).
RECURSIVE SampleFromSchema(_)
RECURSIVE SampleProps(_, _)
SampleProps(props, out) ==
    IF props = <<>> THEN JDict(out)
    ELSE LET val == IF IsDict(props[1][2]) THEN SampleFromSchema(props[1][2])
                    ELSE JNull
         IN  IF val = Raised THEN Raised
             ELSE SampleProps(Tail(props), Append(out, <<props[1][1], val>>))

SampleFromSchema(schema) ==
    IF ~IsDict(schema) THEN JNull
    ELSE LET t == GetN(schema, Key.type)
         IN  IF t = JStr(Str.object) \/ (~Truthy(t) /\ HasKey(schema, Key.properties))
             THEN LET props == Or(Get(schema, Key.properties, EmptyDict), EmptyDict)
                  IN  IF ~IsDict(props) THEN Raised
                      ELSE SampleProps(props.v, <<>>)
             ELSE IF t = JStr(Str.array)
             THEN LET item == SampleFromSchema(Get(schema, Key.items, EmptyDict))
                  IN  IF item = Raised THEN Raised ELSE JList(<<item>>)
             ELSE IF t = JStr(Str.string)
             THEN IF GetN(schema, Key.format) = JStr(Str.date_time)
                  THEN JStr(Str.date_example)
                  ELSE JStr(Str.string_example)
             ELSE IF t = JStr(Str.integer) THEN JInt(0)
             ELSE IF t = JStr(Str.number) THEN JFloat(0)
             ELSE IF t = JStr(Str.boolean) THEN JBool(FALSE)
             ELSE JNull

\* render_sample lines 114-126: the first media type that has an inline
\* schema or a resolvable $ref; a media type with an unresolvable $ref is
\* passed over.  c.get raises on a media type that is no dict, sch.get on a
\* truthy schema that is no dict.
RECURSIVE SampleOfContent(_, _)
SampleOfContent(spec, items) ==
    IF items = <<>> THEN NoBodySchema
    ELSE LET mime == items[1][1]
             c    == items[1][2]
             sch  == Or(GetN(c, Key.schema), EmptyDict)
             ref  == GetN(sch, Key.ref)
         IN  IF ~IsDict(c) THEN Raised
             ELSE IF ~IsDict(sch) THEN Raised
             ELSE IF Truthy(ref)
             THEN LET schema_obj == ResolveSchemaRef(spec, ref)
                  IN  IF schema_obj = Raised THEN Raised
                      ELSE IF Truthy(schema_obj)
                      THEN LET sample == SampleFromSchema(schema_obj)
                           IN  IF sample = Raised THEN Raised
                               ELSE JDict(<< <<Key.content_type, JStr(mime)>>,
                                             <<Key.sample, sample>>,
                                             <<Key.schema_ref, ref>> >>)
                      ELSE SampleOfContent(spec, Tail(items))
             ELSE LET sample == SampleFromSchema(sch)
                  IN  IF sample = Raised THEN Raised
                      ELSE JDict(<< <<Key.content_type, JStr(mime)>>,
                                    <<Key.sample, sample>>,
                                    <<Key.schema_ref, JNull>> >>)

\* render_sample
RenderSample(spec, route, method) ==
    LET op      == FindOperation(spec, route, method)
        rb      == Or(GetN(op, Key.requestBody), EmptyDict)
        content == Or(GetN(rb, Key.content), EmptyDict)
    IN  IF op = Raised THEN Raised
        ELSE IF ~Truthy(op) THEN NotFound
        ELSE IF ~IsDict(op) THEN Raised
        ELSE IF ~IsDict(rb) THEN Raised
        ELSE IF IsDict(content) THEN SampleOfContent(spec, content.v)
        ELSE NoBodySchema

\* str(n) for n >= 0
RECURSIVE NatStr(_)
NatStr(n) ==
    IF n < 10 THEN <<DigitChars[n + 1]>>
    ELSE NatStr(n \div 10) \o <<DigitChars[(n % 10) + 1]>>

\* json.dumps (ensure_ascii) of one character of a string or key: the quote
\* and the backslash take a backslash, \n \r \t \f \b their short form,
\* every other character outside 0x20-0x7E is written \u00XX, and
\* 0x20-0x7E are written as they are.  cp is the code point: the place in
\* AsciiOrder, which starts at 0x01 and skips 0x60.  A character outside
\* the alphabet (json.dumps writes NUL \u0000, a character beyond ASCII
\* \uXXXX and the backquote as it is) has no code point here and no
\* encoding.
JsonEscapeChar(c) ==
    LET hex == <<"0","1","2","3","4","5","6","7","8","9","a","b","c","d","e","f">>
        at  == Ord(c)
        cp  == IF at < 96 THEN at ELSE at + 1
    IN  IF c = "\"" THEN <<"\\", "\"">>
        ELSE IF c = "\\" THEN <<"\\", "\\">>
        ELSE IF c = "\n" THEN <<"\\", "n">>
        ELSE IF c = "\r" THEN <<"\\", "r">>
        ELSE IF c = "\t" THEN <<"\\", "t">>
        ELSE IF c = "\f" THEN <<"\\", "f">>
        ELSE IF cp = 8 THEN <<"\\", "b">>
        ELSE IF cp < 32 \/ cp = 127
             THEN <<"\\", "u", "0", "0", hex[(cp \div 16) + 1], hex[(cp % 16) + 1]>>
        ELSE <<c>>

RECURSIVE JsonEscape(_)
JsonEscape(s) ==
    IF s = <<>> THEN <<>> ELSE JsonEscapeChar(s[1]) \o JsonEscape(Tail(s))

\* json.dumps of a sample, with its default separators and ensure_ascii
RECURSIVE JsonDumps(_)
RECURSIVE DumpsJoin(_, _)
DumpsJoin(parts, isDict) ==
    IF parts = <<>> THEN <<>>
    ELSE (IF isDict
          THEN <<"\"">> \o JsonEscape(parts[1][1]) \o <<"\"", ":", " ">>
               \o JsonDumps(parts[1][2])
          ELSE JsonDumps(parts[1]))
         \o (IF Len(parts) > 1 THEN <<",", " ">> ELSE <<>>)
         \o DumpsJoin(Tail(parts), isDict)

JsonDumps(x) ==
    CASE x.t = "null"  -> <<"n","u","l","l">>
      [] x.t = "bool"  -> IF x.v THEN <<"t","r","u","e">> ELSE <<"f","a","l","s","e">>
      [] x.t = "int"   -> NatStr(x.v)
      [] x.t = "float" -> NatStr(x.v) \o <<".","0">>
      [] x.t = "str"   -> <<"\"">> \o JsonEscape(x.v) \o <<"\"">>
      [] x.t = "list"  -> <<"[">> \o DumpsJoin(x.v, FALSE) \o <<"]">>
      [] x.t = "dict"  -> <<"{">> \o DumpsJoin(x.v, TRUE) \o <<"}">>

\* render_curl without the break of line 158: every media type that has a
\* sample adds its header and body
RECURSIVE CurlBodyNoBreak(_, _)
CurlBodyNoBreak(spec, items) ==
    IF items = <<>> THEN Returned(<<>>)
    ELSE LET mime   == items[1][1]
             c      == items[1][2]
             sch    == Or(GetN(c, Key.schema), EmptyDict)
             schema_obj == ResolveSchemaRef(spec, GetN(sch, Key.ref))
             sample == IF Truthy(GetN(sch, Key.ref))
                       THEN IF schema_obj = Raised THEN Raised
                            ELSE IF Truthy(schema_obj)
                            THEN SampleFromSchema(schema_obj)
                            ELSE JNull
                       ELSE SampleFromSchema(sch)
             rest   == CurlBodyNoBreak(spec, Tail(items))
         IN  IF ~IsDict(c) THEN Threw
             ELSE IF ~IsDict(sch) THEN Threw
             ELSE IF sample = Raised THEN Threw
             ELSE IF ~rest.ok THEN Threw
             ELSE IF sample # JNull
             THEN Returned(<<" ","-","H"," ","\"","C","o","n","t","e","n","t","-","T","y","p","e",":"," ">> \o mime
                           \o <<"\""," ","-","d"," ","'">> \o JsonDumps(sample) \o <<"'">>
                           \o rest.v)
             ELSE rest

\* render_curl lines 146-158: the header and body of the first media type
\* whose sample is not None; the loop goes on to the next media type when
\* the sample is None.  c.get raises on a media type that is no dict,
\* sch.get on a truthy schema that is no dict.
RECURSIVE CurlBody(_, _)
CurlBody(spec, items) ==
    IF items = <<>> THEN Returned(<<>>)
    ELSE LET mime   == items[1][1]
             c      == items[1][2]
             sch    == Or(GetN(c, Key.schema), EmptyDict)
             schema_obj == ResolveSchemaRef(spec, GetN(sch, Key.ref))
             sample == IF Truthy(GetN(sch, Key.ref))
                       THEN IF schema_obj = Raised THEN Raised
                            ELSE IF Truthy(schema_obj)
                            THEN SampleFromSchema(schema_obj)
                            ELSE JNull
                       ELSE SampleFromSchema(sch)
         IN  IF ~IsDict(c) THEN Threw
             ELSE IF ~IsDict(sch) THEN Threw
             ELSE IF sample = Raised THEN Threw
             ELSE IF sample # JNull
             THEN Returned(<<" ","-","H"," ","\"","C","o","n","t","e","n","t","-","T","y","p","e",":"," ">> \o mime
                           \o <<"\""," ","-","d"," ","'">> \o JsonDumps(sample) \o <<"'">>)
             ELSE CurlBody(spec, Tail(items))

\* render_curl
RenderCurl(spec, route, method) ==
    LET op      == FindOperation(spec, route, method)
        rb      == Or(GetN(op, Key.requestBody), EmptyDict)
        content == Or(GetN(rb, Key.content), EmptyDict)
        body    == IF IsDict(content) THEN CurlBody(spec, content.v)
                   ELSE Returned(<<>>)
        sec     == Or(Or(GetN(op, Key.security), GetN(spec, Key.security)),
                      JList(<<>>))
    IN  IF op = Raised THEN Raised
        ELSE IF ~Truthy(op) THEN NotFound
        ELSE IF ~IsDict(op) THEN Raised
        ELSE IF ~IsDict(rb) THEN Raised
        ELSE IF ~body.ok THEN Raised
        ELSE JDict(<< <<Key.curl,
                 JStr(<<"c","u","r","l"," ","-","X"," ">> \o Upper(method)
                      \o <<" ","\"","h","t","t","p",":","/","/","<","H","O","S","T",">">> \o route \o <<"\"">> \o body.v
                      \o (IF Truthy(sec)
                          THEN <<" ","-","H"," ","\"","A","u","t","h","o","r","i","z","a","t","i","o","n",":"," ","B","e","a","r","e","r"," ","<","T","O","K","E","N",">","\"">>
                          ELSE <<>>))>> >>)

(***************************************************************************)
(* main.py                                                                 *)
(***************************************************************************)
\* lines 53 and 62, "$ref" in schema followed by schema["$ref"]: a key test
\* on a dict; a substring test on a string and an element test on a list,
\* after which the subscript raises; a TypeError on every other value.
SchemaRefRaises(schema) ==
    CASE IsDict(schema) -> FALSE
      [] IsStr(schema)  -> Contains(schema.v, Key.ref)
      [] IsList(schema) -> \E i \in 1..Len(schema.v) :
                               schema.v[i].t = "str" /\ schema.v[i].v = Key.ref
      [] OTHER          -> TRUE

\* lines 51-54 and 60-63: the raw $ref of every media type, in order
RECURSIVE ExtractMediaRefs(_)
ExtractMediaRefs(items) ==
    IF items = <<>> THEN Returned(<<>>)
    ELSE LET media  == items[1][2]
             schema == Get(media, Key.schema, EmptyDict)
             rest   == ExtractMediaRefs(Tail(items))
         IN  IF ~IsDict(media) THEN Threw
             ELSE IF SchemaRefRaises(schema) THEN Threw
             ELSE IF ~rest.ok THEN Threw
             ELSE Returned((IF IsDict(schema) /\ HasKey(schema, Key.ref)
                            THEN <<GetN(schema, Key.ref)>> ELSE <<>>) \o rest.v)

\* lines 58-63: the media types of every response
RECURSIVE ExtractResponseRefs(_)
ExtractResponseRefs(items) ==
    IF items = <<>> THEN Returned(<<>>)
    ELSE LET res     == items[1][2]
             content == Get(res, Key.content, EmptyDict)
             here    == ExtractMediaRefs(content.v)
             rest    == ExtractResponseRefs(Tail(items))
         IN  IF ~IsDict(res) THEN Threw
             ELSE IF ~IsDict(content) THEN Threw
             ELSE IF ~here.ok \/ ~rest.ok THEN Threw
             ELSE Returned(here.v \o rest.v)

\* extract_schema_refs, lines 45-65: no "or {}" and no isinstance test, so a
\* requestBody, content, media type, responses or response that is no dict
\* raises.
ExtractSchemaRefs(operation) ==
    LET request_body == Get(operation, Key.requestBody, EmptyDict)
        content      == Get(request_body, Key.content, EmptyDict)
        responses    == Get(operation, Key.responses, EmptyDict)
        body         == ExtractMediaRefs(content.v)
        answers      == ExtractResponseRefs(responses.v)
    IN  IF ~IsDict(operation) THEN Threw
        ELSE IF ~IsDict(request_body) THEN Threw
        ELSE IF ~IsDict(content) THEN Threw
        ELSE IF ~body.ok THEN Threw
        ELSE IF ~IsDict(responses) THEN Threw
        ELSE IF ~answers.ok THEN Threw
        ELSE Returned(body.v \o answers.v)

\* line 72, spec_index[(path, method.lower())] = ...: a key already present
\* keeps its place and takes the new value
IndexPut(index, entry) ==
    IF \E i \in 1..Len(index) :
          index[i].route = entry.route /\ index[i].method = entry.method
    THEN [i \in 1..Len(index) |->
            IF index[i].route = entry.route /\ index[i].method = entry.method
            THEN entry ELSE index[i]]
    ELSE Append(index, entry)

\* lines 71-76: the operations of one path item
RECURSIVE IndexMethods(_, _, _)
IndexMethods(index, path, items) ==
    IF items = <<>> THEN Returned(index)
    ELSE LET method == items[1][1]
             data   == items[1][2]
             refs   == ExtractSchemaRefs(data)
         IN  IF ~IsDict(data) THEN Threw
             ELSE IF ~refs.ok THEN Threw
             ELSE IndexMethods(
                    IndexPut(index, [route       |-> path,
                                     method      |-> Lower(method),
                                     summary     |-> GetN(data, Key.summary),
                                     operationId |-> GetN(data, Key.operationId),
                                     schema_refs |-> refs.v]),
                    path, Tail(items))

\* lines 70-76: every path item
RECURSIVE IndexPaths(_, _)
IndexPaths(index, items) ==
    IF items = <<>> THEN Returned(index)
    ELSE LET path    == items[1][1]
             methods == items[1][2]
             here    == IndexMethods(index, path, methods.v)
         IN  IF ~IsDict(methods) THEN Threw
             ELSE IF ~here.ok THEN Threw
             ELSE IndexPaths(here.v, Tail(items))

\* lines 39-76, what importing main.py does with the loaded document:
\* spec["paths"].keys() (line 40) needs the key and a dict under it, then
\* the index is built.  When this raises the application does not start.
SpecIndex(spec) ==
    IF ~IsDict(spec) THEN Threw
    ELSE IF ~HasKey(spec, Key.paths) THEN Threw
    ELSE IF ~IsDict(GetN(spec, Key.paths)) THEN Threw
    ELSE IndexPaths(<<>>, GetN(spec, Key.paths).v)

\* HTTP responses: a status and a JSON body.  400 is the HTTPException of
\* lines 95 and 104, 500 any other exception of the handler.
NoResponse == [status |-> 0, body |-> JNull]
BadRequest ==
    [status |-> 400,
     body   |-> JDict(<< <<Key.detail, JStr(Str.missing_question)>> >>)]
ServerError == [status |-> 500, body |-> JNull]
Ok(body) == [status |-> 200, body |-> body]

\* choose_endpoint, lines 112-133: the body answered for a Choice.  An
\* entry of spec_index is a dict of three keys, so "not endpoint" holds
\* exactly when the key is absent.
ChooseBody(chosen, index) ==
    IF chosen.none
    THEN JDict(<< <<Key.error, JStr(Str.no_match)>> >>)
    ELSE LET route  == chosen.route
             method == Lower(chosen.method)
             hits   == {i \in 1..Len(index) :
                          index[i].route = route /\ index[i].method = method}
         IN  IF hits = {}
             THEN JDict(<< <<Key.error, JStr(Str.not_in_spec)>>,
                           <<Key.route, JStr(route)>>,
                           <<Key.method, JStr(method)>> >>)
             ELSE LET endpoint == index[CHOOSE i \in hits : TRUE]
                  IN  JDict(<< <<Key.route, JStr(route)>>,
                               <<Key.method, JStr(method)>>,
                               <<Key.summary, endpoint.summary>>,
                               <<Key.operationId, endpoint.operationId>>,
                               <<Key.schema_refs, JList(endpoint.schema_refs)>> >>)

\* line 108: the candidates of find_candidates as choose reads them (route,
\* method and a score that is always present)
ChooserCands(cands) ==
    [i \in 1..Len(cands) |->
        [route |-> cands[i].route, method |-> cands[i].method,
         score |-> cands[i].score, has_score |-> TRUE]]

(***************************************************************************)
(* Inputs of the ranker                                                    *)
(***************************************************************************)
MaxPaths == 2
MaxTopK == 3

RefTo(name) == JDict(<< <<Key.ref, JStr(RefPrefix \o name)>> >>)

Media(schema) == JDict(<< <<Key.schema, schema>> >>)

\* {"summary": "A b"}
OpSummary == JDict(<< <<Key.summary, JStr(<<"A"," ","b">>)>> >>)

\* the token "a" is in the operationId, the summary and the description
OpBoth ==
    JDict(<< <<Key.operationId, JStr(<<"b","_","a">>)>>,
             <<Key.summary, JStr(<<"a">>)>>,
             <<Key.description, JStr(<<"A","b"," ","a">>)>> >>)

\* two media types with the same $ref
OpBody ==
    JDict(<< <<Key.description, JStr(<<"a","-","b">>)>>,
             <<Key.requestBody,
               JDict(<< <<Key.content,
                          JDict(<< <<Str.json, Media(RefTo(<<"A","b">>))>>,
                                   <<Str.xml, Media(RefTo(<<"A","b">>))>> >>)>> >>)>> >>)

\* a null summary, a $ref parameter, an inline one, one without a schema and
\* one whose $ref is outside components
OpParams ==
    JDict(<< <<Key.summary, JNull>>,
             <<Key.parameters,
               JList(<< JDict(<< <<Key.schema, RefTo(<<"B">>)>> >>),
                        JDict(<< <<Key.schema, JDict(<< <<Key.type, JStr(Str.string)>> >>)>> >>),
                        JDict(<< <<Key.name, JStr(<<"q">>)>> >>),
                        JDict(<< <<Key.schema,
                                   JDict(<< <<Key.ref, JStr(<<"#","/","d","e","f","i","n","i","t","i","o","n","s","/","a">>)>> >>)>> >>)
                     >>)>> >>)

\* a parameter that is no object: p.get raises
OpBadParam ==
    JDict(<< <<Key.summary, JStr(<<"a">>)>>,
             <<Key.parameters, JList(<<JStr(<<>>)>>)>> >>)

\* a media type whose schema is the empty string: sch.get raises in
\* score_endpoint
OpBadSchema ==
    JDict(<< <<Key.requestBody,
               JDict(<< <<Key.content,
                          JDict(<< <<Str.json, Media(JStr(<<>>))>> >>)>> >>)>> >>)

\* a media type that is no object, which the parser skips, before one with
\* a $ref
OpSkipMedia ==
    JDict(<< <<Key.requestBody,
               JDict(<< <<Key.content,
                          JDict(<< <<Str.json, JStr(<<>>)>>,
                                   <<Str.xml, Media(RefTo(<<"B">>))>> >>)>> >>)>> >>)

RankOps ==
    {OpSummary, OpBoth, OpBody, OpParams, EmptyDict,
     OpBadParam, OpBadSchema, OpSkipMedia}

\* Path items: method -> operation, in document order.  A path item may
\* carry keys that are no operations ("parameters": [...]), may be empty and
\* may hold a malformed operation.
RankItems ==
    { JDict(<< <<Str.get, OpSummary>> >>),
      JDict(<< <<Str.post, OpBody>>, <<Str.get, OpBoth>> >>),
      JDict(<< <<Key.parameters, JList(<<>>)>>, <<Str.post, OpParams>> >>),
      JDict(<< <<Str.put, OpSummary>>, <<Str.get, EmptyDict>> >>),
      JDict(<< <<Str.get, OpSkipMedia>>, <<Str.put, OpBadParam>> >>),
      EmptyDict }

RankPaths == {<<"/","a","b">>, <<"/","b","/">>, <<"/","A">>}

\* paths: up to MaxPaths distinct paths, in any document order
PathDicts(pathSet, itemSet) ==
    UNION {
      { s \in [1..n -> pathSet \X itemSet] :
          \A i, j \in 1..n : i # j => s[i][1] # s[j][1] }
      : n \in 0..MaxPaths }

SpecOf(paths) == JDict(<< <<Key.paths, JDict(paths)>> >>)

\* the documents: paths only, and one whose "components" is a string
RankSpecs ==
    {SpecOf(p) : p \in PathDicts(RankPaths, RankItems)}
    \cup {JDict(<< <<Key.paths, JDict(<< <<<<"/","a","b">>, JDict(<< <<Str.get, OpSummary>> >>)>> >>)>>,
                   <<Key.components, JStr(<<"x">>)>> >>)}

Queries == { <<>>, <<"a">>, <<"a"," ","a">>, <<"A"," ","b">>, <<"b",","," ","a","b">>, <<"a","b","?">>, <<"b"," ","a"," ","b">> }

\* POST /candidates is served from a document main.py can index at import
RankRequests ==
    [fn : {"find_candidates"}, spec : RankSpecs,
     query : {<<>>, <<"A"," ","b">>, <<"b"," ","a"," ","b">>},
     top_k : (-1)..MaxTopK]
    \cup
    [fn : {"candidates_endpoint"}, spec : {s \in RankSpecs : SpecIndex(s).ok},
     query : {<<>>, <<"a">>, <<"a","b","?">>}, top_k : (-1)..MaxTopK]
    \cup
    [fn : {"score_endpoint"}, tokens : {Tokens(q) : q \in Queries},
     path : RankPaths, info : RankOps]

RankInit ==
    /\ ChooseIdle /\ ResolveIdle /\ SampleIdle
    /\ rq \in RankRequests
    /\ rout = [done |-> FALSE, raised |-> FALSE, status |-> 0, cands |-> <<>>, score |-> 0]

RunFindCandidates ==
    /\ rq.fn = "find_candidates"
    /\ ~rout.done
    /\ LET raises == FindCandidatesRaises(rq.spec, rq.query)
       IN  rout' = [done   |-> TRUE,
                    raised |-> raises,
                    status |-> 0,
                    cands  |-> IF raises THEN <<>>
                               ELSE FindCandidates(rq.spec, rq.query, rq.top_k),
                    score  |-> 0]
    /\ UNCHANGED <<rq, chooseVars, resolveVars, sampleVars>>

RunScoreEndpoint ==
    /\ rq.fn = "score_endpoint"
    /\ ~rout.done
    /\ rout' = [done   |-> TRUE,
                raised |-> ScoreRaises(rq.info),
                status |-> 0,
                cands  |-> <<>>,
                score  |-> IF ScoreRaises(rq.info) THEN 0
                           ELSE ScoreEndpoint(rq.tokens, rq.path, rq.info)]
    /\ UNCHANGED <<rq, chooseVars, resolveVars, sampleVars>>

\* candidates_endpoint, lines 92-98: an empty q is refused with 400, an
\* exception of find_candidates is a 500, otherwise the list is the body
CandidatesEndpoint ==
    /\ rq.fn = "candidates_endpoint"
    /\ ~rout.done
    /\ LET raises == FindCandidatesRaises(rq.spec, rq.query)
       IN  rout' = [done   |-> TRUE,
                    raised |-> rq.query = Str.empty \/ raises,
                    status |-> IF rq.query = Str.empty THEN 400
                               ELSE IF raises THEN 500 ELSE 200,
                    cands  |-> IF rq.query = Str.empty \/ raises THEN <<>>
                               ELSE FindCandidates(rq.spec, rq.query, rq.top_k),
                    score  |-> 0]
    /\ UNCHANGED <<rq, chooseVars, resolveVars, sampleVars>>

RankNext == RunFindCandidates \/ RunScoreEndpoint \/ CandidatesEndpoint

SpecRank == RankInit /\ [][RankNext]_vars

(***************************************************************************)
(* Properties of the ranker                                                *)
(***************************************************************************)
SeqSet(s) == {s[i] : i \in 1..Len(s)}

\* The $ref values of an operation: request body media types, parameters
StatedRefs(info) ==
    LET rb      == GetN(info, Key.requestBody)
        content == IF IsDict(rb) THEN Get(rb, Key.content, EmptyDict) ELSE EmptyDict
        params  == Or(GetN(info, Key.parameters), JList(<<>>))
        bodyRefs  == {GetN(Or(GetN(content.v[i][2], Key.schema), EmptyDict), Key.ref) :
                        i \in {j \in 1..Len(content.v) : IsDict(content.v[j][2])}}
        paramRefs == {GetN(Or(GetN(params.v[i], Key.schema), EmptyDict), Key.ref) :
                        i \in 1..Len(params.v)}
    IN  {r \in bodyRefs \cup paramRefs : IsSchemaRef(r)}

\* Section 4.2, one token, with +2.0 for the operationId and a separate +2.0
\* for the summary
StatedGainPerField(t, path, info) ==
      (IF Contains(Lower(path), t) THEN 3 ELSE 0)
    + (IF t \in SeqSet(Tokens(StrField(info, Key.operationId))) THEN 2 ELSE 0)
    + (IF t \in SeqSet(Tokens(StrField(info, Key.summary))) THEN 2 ELSE 0)
    + (IF t \in SeqSet(Tokens(StrField(info, Key.description))) THEN 1 ELSE 0)
    + (IF t \in {Lower(RefName(r)) : r \in StatedRefs(info)} THEN 1 ELSE 0)

\* The same with one +2.0 for "operationId or summary"
StatedGainEither(t, path, info) ==
      (IF Contains(Lower(path), t) THEN 3 ELSE 0)
    + (IF \/ t \in SeqSet(Tokens(StrField(info, Key.operationId)))
          \/ t \in SeqSet(Tokens(StrField(info, Key.summary))) THEN 2 ELSE 0)
    + (IF t \in SeqSet(Tokens(StrField(info, Key.description))) THEN 1 ELSE 0)
    + (IF t \in {Lower(RefName(r)) : r \in StatedRefs(info)} THEN 1 ELSE 0)

RECURSIVE StatedSumPerField(_, _, _)
StatedSumPerField(toks, path, info) ==
    IF toks = <<>> THEN 0
    ELSE StatedGainPerField(toks[1], path, info)
         + StatedSumPerField(Tail(toks), path, info)

RECURSIVE StatedSumEither(_, _, _)
StatedSumEither(toks, path, info) ==
    IF toks = <<>> THEN 0
    ELSE StatedGainEither(toks[1], path, info)
         + StatedSumEither(Tail(toks), path, info)

\* (score descending, route ascending, method ascending), as section 4.3
StatedInOrder(a, b) ==
    \/ a.score > b.score
    \/ a.score = b.score /\ a.route # b.route /\ StrLess(a.route, b.route)
    \/ a.score = b.score /\ a.route = b.route /\ ~StrLess(b.method, a.method)

\* the dict-shaped operations of the document
StatedOperations(spec) ==
    LET paths == Get(spec, Key.paths, EmptyDict).v
    IN  {ij \in UNION {{i} \X (1..Len(paths[i][2].v)) : i \in 1..Len(paths)} :
            IsDict(paths[ij[1]][2].v[ij[2]][2])}

StatedRanked(out, spec) ==
    /\ \A i, j \in 1..Len(out) : i < j => StatedInOrder(out[i], out[j])
    /\ \A i \in 1..Len(out) : HasKey(Get(spec, Key.paths, EmptyDict), out[i].route)

\* C4 (as claimed): for every top_k the list has at most top_k candidates,
\* is ordered by (score desc, route asc, method asc), names only paths of
\* the spec, and is shorter than top_k only if the spec has fewer operations.
C4_AtMostTopKAnyTopK ==
    (rq.fn \in {"find_candidates", "candidates_endpoint"} /\ rout.done /\ ~rout.raised) =>
        /\ Len(rout.cands) <= rq.top_k
        /\ StatedRanked(rout.cands, rq.spec)
        /\ Len(rout.cands) < rq.top_k =>
              Cardinality(StatedOperations(rq.spec)) < rq.top_k

\* C4 (amended): the list is always ordered and names only paths of the
\* spec; for top_k >= 0 it has at most top_k candidates and is shorter than
\* top_k only if it holds all dict-shaped operations of the spec.
C4_RankedTopK ==
    (rq.fn \in {"find_candidates", "candidates_endpoint"} /\ rout.done /\ ~rout.raised) =>
        /\ StatedRanked(rout.cands, rq.spec)
        /\ rq.top_k >= 0 =>
              /\ Len(rout.cands) <= rq.top_k
              /\ Len(rout.cands) < rq.top_k =>
                    Len(rout.cands) = Cardinality(StatedOperations(rq.spec))

\* C4 witness: the spec has more operations than top_k, the list was cut to
\* top_k and its first two candidates tie on the score.
C4_Witness ==
    /\ rq.fn \in {"find_candidates", "candidates_endpoint"} /\ rout.done
    /\ rq.top_k >= 2
    /\ Cardinality(StatedOperations(rq.spec)) > rq.top_k
    /\ Len(rout.cands) = rq.top_k
    /\ rout.cands[1].score = rout.cands[2].score
    /\ rout.cands[1].score > 0

\* C5 (as claimed): the score is the sum over the question tokens of +3.0
\* path substring, +2.0 operationId and a separate +2.0 summary, +1.0
\* description, +1.0 referenced schema name.
C5_ScorePerField ==
    (rq.fn = "score_endpoint" /\ rout.done /\ ~rout.raised) =>
        rout.score = StatedSumPerField(rq.tokens, rq.path, rq.info)

\* C5 (amended): the same sum with a single +2.0 when the token is in the
\* tokenized operationId or in the tokenized summary, also when in both.
C5_ScoreEitherField ==
    (rq.fn = "score_endpoint" /\ rout.done /\ ~rout.raised) =>
        rout.score = StatedSumEither(rq.tokens, rq.path, rq.info)

\* C5 witness: a token of the question is in the operationId and in the
\* summary of the scored operation.
C5_Witness ==
    /\ rq.fn = "score_endpoint" /\ rout.done
    /\ \E i \in 1..Len(rq.tokens) :
          /\ rq.tokens[i] \in SeqSet(Tokens(StrField(rq.info, Key.operationId)))
          /\ rq.tokens[i] \in SeqSet(Tokens(StrField(rq.info, Key.summary)))
    /\ rout.score > 0

\* C10 (as claimed): the score depends only on the set of distinct question
\* tokens; a repeated token adds what one occurrence adds.
C10_RepeatedTokenCountsOnce ==
    (rq.fn = "score_endpoint" /\ rout.done /\ ~rout.raised) =>
        rout.score = ScoreEndpoint(Unique(rq.tokens), rq.path, rq.info)

\* C12 (as claimed): for every operation, the schema_refs of the candidate
\* that find_candidates produces and the schema_refs that render_summary
\* produces (via _collect_schema_refs) are the same sequence: the same refs
\* in the same order, with the same treatment of duplicates and the same
\* representation of each ref.
C12_SameSchemaRefs ==
    (rq.fn \in {"find_candidates", "candidates_endpoint"} /\ rout.done /\ ~rout.raised) =>
        \A i \in 1..Len(rout.cands) :
            LET c       == rout.cands[i]
                summary == RenderSummary(rq.spec, c.route, c.method)
            IN  (summary # NotFound /\ summary # Raised) =>
                    GetN(summary, Key.schema_refs) =
                        JList([j \in 1..Len(c.schema_refs) |-> JStr(c.schema_refs[j])])

(***************************************************************************)
(* Inputs of sample_from_schema                                            *)
(***************************************************************************)
MaxDepth == 2

TypeOnly(ty) == JDict(<< <<Key.type, ty>> >>)

\* values that are no dict
NonDicts ==
    {JNull, JStr(<<"a","b">>), JInt(1), JBool(TRUE), JList(<<>>), JList(<<JInt(1)>>)}

\* schemas without nested schemas: empty, each type, unknown and malformed
\* types, string formats
LeafSchemas ==
    {EmptyDict}
    \cup {TypeOnly(JStr(ty)) : ty \in {Str.object, Str.array, Str.string, Str.integer,
                                       Str.number, Str.boolean, <<"f","i","l","e">>}}
    \cup {TypeOnly(JNull), TypeOnly(JList(<<JStr(Str.string)>>))}
    \cup {JDict(<< <<Key.type, JStr(Str.string)>>, <<Key.format, JStr(fmt)>> >>) :
            fmt \in {Str.date_time, <<"e","m","a","i","l">>}}

\* values of "properties": falsy ones, truthy ones that are no dict, and
\* dicts of one or two properties
PropertyValues(S) ==
    {EmptyDict, JNull, JList(<<>>), JList(<<JInt(1)>>), JStr(<<"a","b">>)}
    \cup {JDict(<< <<<<"n","a","m","e">>, s>> >>) : s \in S}
    \cup {JDict(<< <<<<"i","d">>, JInt(1)>>, <<<<"n","a","m","e">>, s>> >>) : s \in S}

RECURSIVE SchemasUpTo(_)
SchemasUpTo(d) ==
    IF d = 0 THEN NonDicts \cup LeafSchemas
    ELSE LET S == SchemasUpTo(d - 1)
         IN  S
             \cup {JDict(<< <<Key.type, JStr(Str.object)>>, <<Key.properties, pv>> >>) :
                     pv \in PropertyValues(S)}
             \cup {JDict(<< <<Key.properties, pv>> >>) : pv \in PropertyValues(S)}
             \cup {JDict(<< <<Key.type, JStr(Str.array)>>, <<Key.items, s>> >>) : s \in S}
             \cup {JDict(<< <<Key.type, JStr(Str.integer)>>, <<Key.properties, s>> >>) :
                     s \in NonDicts}

\* A call of sample_from_schema on its own
SampleInit ==
    /\ ChooseIdle /\ RankIdle /\ ResolveIdle
    /\ sq \in [fn : {"sample_from_schema"}, schema : SchemasUpTo(MaxDepth)]
    /\ sout = [done |-> FALSE, res |-> JNull]

RunSampleFromSchema ==
    /\ sq.fn = "sample_from_schema" /\ ~sout.done
    /\ sout' = [done |-> TRUE, res |-> SampleFromSchema(sq.schema)]
    /\ UNCHANGED <<sq, chooseVars, rankVars, resolveVars>>

SampleNext == RunSampleFromSchema

SpecSample == SampleInit /\ [][SampleNext]_vars

(***************************************************************************)
(* Inputs of the resolver                                                  *)
(***************************************************************************)
\* components.schemas: an object, one of whose property names holds the
\* control characters 0x08 and 0x01, and a string; no schema is named Zz
Components ==
    JDict(<< <<Key.schemas,
               JDict(<< <<<<"A","b">>,
                          JDict(<< <<Key.type, JStr(Str.object)>>,
                                   <<Key.properties,
                                     JDict(<< <<<<"n","a","m","e">>, TypeOnly(JStr(Str.string))>>,
                                              <<<<"n","","">>, TypeOnly(JStr(Str.integer))>> >>)>> >>)>>,
                        <<<<"B">>, TypeOnly(JStr(Str.string))>> >>)>> >>)

VOpPlain ==
    JDict(<< <<Key.summary, JStr(<<"L","i","s","t"," ","a">>)>>, <<Key.operationId, JStr(<<"l","i","s","t","A">>)>> >>)

\* first media type: a $ref that resolves to nothing; second: inline string
VOpTwo ==
    JDict(<< <<Key.requestBody,
               JDict(<< <<Key.content,
                          JDict(<< <<Str.json, Media(RefTo(<<"Z","z">>))>>,
                                   <<Str.xml, Media(TypeOnly(JStr(Str.string)))>> >>)>> >>)>> >>)

\* refs in the body and the parameters, one of them twice; own security
VOpRef ==
    JDict(<< <<Key.description, JStr(<<"M","a","k","e"," ","b">>)>>,
             <<Key.requestBody,
               JDict(<< <<Key.content,
                          JDict(<< <<Str.json, Media(RefTo(<<"A","b">>))>>,
                                   <<Str.xml, Media(RefTo(<<"B">>))>> >>)>> >>)>>,
             <<Key.parameters,
               JList(<< JDict(<< <<Key.schema, RefTo(<<"B">>)>> >>),
                        JDict(<< <<Key.schema, RefTo(<<"A","b">>)>> >>),
                        JDict(<< <<Key.schema, TypeOnly(JStr(Str.integer))>> >>) >>)>>,
             <<Key.security, JList(<<EmptyDict>>)>> >>)

\* first media type: an inline schema without a type; second: a $ref
VOpInline ==
    JDict(<< <<Key.requestBody,
               JDict(<< <<Key.content,
                          JDict(<< <<Str.json, Media(EmptyDict)>>,
                                   <<Str.xml, Media(RefTo(<<"A","b">>))>> >>)>> >>)>> >>)

\* first media type: an inline string schema; second: no object, on which
\* c.get raises when the loop reaches it; a parameter that is no object
VOpBad ==
    JDict(<< <<Key.requestBody,
               JDict(<< <<Key.content,
                          JDict(<< <<Str.json, Media(TypeOnly(JStr(Str.string)))>>,
                                   <<Str.xml, JStr(<<>>)>> >>)>> >>)>>,
             <<Key.parameters, JList(<<JStr(<<>>)>>)>> >>)

ResolveItems ==
    { JDict(<< <<Str.get, VOpPlain>>, <<Str.post, VOpRef>> >>),
      JDict(<< <<Str.get, VOpTwo>> >>),
      JDict(<< <<Str.get, EmptyDict>>, <<Str.post, VOpInline>> >>),
      JDict(<< <<Str.get, VOpBad>> >>),
      EmptyDict }

ResolvePaths == {<<"/","a">>, <<"/","a","/">>, <<"/","b">>}

SpecWith(paths, security) ==
    JDict(<< <<Key.paths, JDict(paths)>>, <<Key.components, Components>> >>
          \o security)

ResolveSpecs ==
    {SpecWith(p, sec) :
        p \in PathDicts(ResolvePaths, ResolveItems),
        sec \in {<<>>, << <<Key.security, JList(<<EmptyDict>>)>> >>}}

\* Calls of render_summary, render_schema, render_sample and render_curl on
\* their own
ResolveRequests ==
    [fn : {"render_summary", "render_schema", "render_sample", "render_curl"},
     spec : ResolveSpecs,
     route : {<<"/","a">>, <<"/","a","/">>, <<"/","a","/","/">>, <<"/","b">>, <<"/","c">>},
     method : {Str.get, Str.GET, Str.post}]

ResolveInit ==
    /\ ChooseIdle /\ RankIdle /\ SampleIdle
    /\ vq \in ResolveRequests
    /\ vout = [done |-> FALSE, res |-> JNull]

RunRenderSummary ==
    /\ vq.fn = "render_summary" /\ ~vout.done
    /\ vout' = [done |-> TRUE, res |-> RenderSummary(vq.spec, vq.route, vq.method)]
    /\ UNCHANGED <<vq, chooseVars, rankVars, sampleVars>>

RunRenderSchema ==
    /\ vq.fn = "render_schema" /\ ~vout.done
    /\ vout' = [done |-> TRUE, res |-> RenderSchema(vq.spec, vq.route, vq.method)]
    /\ UNCHANGED <<vq, chooseVars, rankVars, sampleVars>>

RunRenderSample ==
    /\ vq.fn = "render_sample" /\ ~vout.done
    /\ vout' = [done |-> TRUE, res |-> RenderSample(vq.spec, vq.route, vq.method)]
    /\ UNCHANGED <<vq, chooseVars, rankVars, sampleVars>>

RunRenderCurl ==
    /\ vq.fn = "render_curl" /\ ~vout.done
    /\ vout' = [done |-> TRUE, res |-> RenderCurl(vq.spec, vq.route, vq.method)]
    /\ UNCHANGED <<vq, chooseVars, rankVars, sampleVars>>

ResolveNext ==
    RunRenderSummary \/ RunRenderSchema \/ RunRenderSample \/ RunRenderCurl

SpecResolve == ResolveInit /\ [][ResolveNext]_vars

(***************************************************************************)
(* Properties of the resolver and the sample generator                     *)
(***************************************************************************)
\* The path section 4.5 matches: the route itself when it is a path of the
\* spec, otherwise the first path equal to it with trailing slashes stripped
\* from both; 0 when there is none.
StatedMatch(spec, route) ==
    LET paths == Get(spec, Key.paths, EmptyDict).v
        exact == {i \in 1..Len(paths) : paths[i][1] = route}
        loose == {i \in 1..Len(paths) :
                    RStripSlash(paths[i][1]) = RStripSlash(route)}
    IN  IF exact # {} THEN CHOOSE i \in exact : TRUE
        ELSE IF loose # {} THEN CHOOSE i \in loose : \A j \in loose : i <= j
        ELSE 0

StatedAbsent(spec, route, method) ==
    LET paths == Get(spec, Key.paths, EmptyDict).v
        i     == StatedMatch(spec, route)
    IN  i = 0 \/ ~HasKey(paths[i][2], Lower(method))

\* C7 (as claimed): each render function returns the error result
\* "operation not found", without raising, exactly when no path matches the
\* route (directly, else with trailing slashes stripped) or the method key
\* is absent under the matched path; otherwise the operation under the
\* matched path and the lower-cased method is the one resolved.
C7_NotFoundExactlyWhenAbsent ==
    vout.done =>
        /\ (vout.res = NotFound) <=> StatedAbsent(vq.spec, vq.route, vq.method)
        /\ (/\ vq.fn = "render_summary"
            /\ ~StatedAbsent(vq.spec, vq.route, vq.method)
            /\ vout.res # Raised) =>
              LET paths == Get(vq.spec, Key.paths, EmptyDict).v
                  op == GetN(paths[StatedMatch(vq.spec, vq.route)][2], Lower(vq.method))
              IN  /\ GetN(vout.res, Key.summary) = GetN(op, Key.summary)
                  /\ GetN(vout.res, Key.operationId) = GetN(op, Key.operationId)

\* C8 (as claimed): sample_from_schema returns a value for every input, the
\* malformed schemas included, and never raises.
C8_SampleNeverRaises ==
    sout.done => sout.res # Raised

\* Section 4.5, render_curl: the sample of one media type, from the schema
\* its $ref resolves to or from its inline schema; null when none can be
\* generated
StatedSample(spec, media) ==
    LET sch == Or(GetN(media, Key.schema), EmptyDict)
        ref == GetN(sch, Key.ref)
    IN  IF ~IsDict(media) \/ ~IsDict(sch) THEN JNull
        ELSE IF ~Truthy(ref) THEN SampleFromSchema(sch)
        ELSE IF Truthy(ResolveSchemaRef(spec, ref))
        THEN SampleFromSchema(ResolveSchemaRef(spec, ref))
        ELSE JNull

\* the media types of the operation's request body, in encounter order
StatedMedia(op) ==
    LET content == Or(GetN(Or(GetN(op, Key.requestBody), EmptyDict), Key.content),
                      EmptyDict)
    IN  IF IsDict(content) THEN content.v ELSE <<>>

\* the media types for which a sample can be generated
StatedSampled(spec, op) ==
    {i \in 1..Len(StatedMedia(op)) : StatedSample(spec, StatedMedia(op)[i][2]) # JNull}

\* JSON text as section 4.5 means it ("the JSON-encoded sample"), in the
\* layout of Python's json module: ", " between items, ": " after a key,
\* whole floats with ".0", and inside a string the two-character escapes
\* of RFC 8259 for the quote, the backslash, backspace, form feed, line
\* feed, carriage return and tab, \u00XX for the other control characters
\* and DEL, and the printable characters as they are.
StatedJsonChar(c) ==
    LET short == << <<"\"", "\"">>, <<"\\", "\\">>, <<"\n", "n">>, <<"\r", "r">>,
                    <<"\t", "t">>, <<"\f", "f">>, <<AsciiOrder[8], "b">> >>
        plain == {AsciiOrder[k] : k \in 32..Len(AsciiOrder) - 1}
        digit == DigitChars \o <<"a","b","c","d","e","f">>
        named == {k \in 1..Len(short) : short[k][1] = c}
    IN  IF named # {} THEN <<"\\", short[CHOOSE k \in named : TRUE][2]>>
        ELSE IF c \in plain THEN <<c>>
        ELSE IF c = AsciiOrder[Len(AsciiOrder)] THEN <<"\\","u","0","0","7","f">>
        ELSE LET n == CHOOSE k \in 1..31 : AsciiOrder[k] = c
             IN  <<"\\","u","0","0">> \o <<digit[(n \div 16) + 1], digit[(n % 16) + 1]>>

RECURSIVE StatedJsonString(_)
StatedJsonString(s) ==
    IF Len(s) = 0 THEN <<>>
    ELSE StatedJsonString(SubSeq(s, 1, Len(s) - 1)) \o StatedJsonChar(s[Len(s)])

RECURSIVE StatedJson(_)
RECURSIVE StatedJsonItems(_, _, _)
StatedJsonItems(x, k, acc) ==
    IF k > Len(x.v) THEN acc
    ELSE StatedJsonItems(x, k + 1,
            acc \o (IF k = 1 THEN <<>> ELSE <<",", " ">>)
                \o (IF x.t = "dict"
                    THEN <<"\"">> \o StatedJsonString(x.v[k][1]) \o <<"\"", ":", " ">>
                         \o StatedJson(x.v[k][2])
                    ELSE StatedJson(x.v[k])))

StatedJson(x) ==
    IF x.t = "null" THEN <<"n","u","l","l">>
    ELSE IF x.t = "bool" THEN (IF x.v THEN <<"t","r","u","e">> ELSE <<"f","a","l","s","e">>)
    ELSE IF x.t = "int" THEN NatStr(x.v)
    ELSE IF x.t = "float" THEN NatStr(x.v) \o <<".","0">>
    ELSE IF x.t = "str" THEN <<"\"">> \o StatedJsonString(x.v) \o <<"\"">>
    ELSE IF x.t = "list" THEN <<"[">> \o StatedJsonItems(x, 1, <<>>) \o <<"]">>
    ELSE <<"{">> \o StatedJsonItems(x, 1, <<>>) \o <<"}">>

\* the command that carries the header and body of media type i, and
\* neither when i = 0
StatedCurl(spec, route, method, op, i) ==
    <<"c","u","r","l"," ","-","X"," ">> \o Upper(method)
    \o <<" ","\"","h","t","t","p",":","/","/","<","H","O","S","T",">">> \o route \o <<"\"">>
    \o (IF i = 0 THEN <<>>
        ELSE <<" ","-","H"," ","\"","C","o","n","t","e","n","t","-","T","y","p","e",":"," ">> \o StatedMedia(op)[i][1]
             \o <<"\""," ","-","d"," ","'">> \o StatedJson(StatedSample(spec, StatedMedia(op)[i][2]))
             \o <<"'">>)
    \o (IF Truthy(Or(GetN(op, Key.security), GetN(spec, Key.security)))
        THEN <<" ","-","H"," ","\"","A","u","t","h","o","r","i","z","a","t","i","o","n",":"," ","B","e","a","r","e","r"," ","<","T","O","K","E","N",">","\"">>
        ELSE <<>>)

\* C11 (as claimed): for an operation with a request body, render_curl
\* considers only the first media type in encounter order: the command has
\* the Content-Type header and the body of that first media type if a sample
\* can be generated for it, and no content-type header or body otherwise; a
\* later media type is never used.
C11_OnlyFirstMediaType ==
    (vq.fn = "render_curl" /\ vout.done /\ vout.res # NotFound /\ vout.res # Raised) =>
        LET op == FindOperation(vq.spec, vq.route, vq.method)
        IN  GetN(vout.res, Key.curl) =
                JStr(StatedCurl(vq.spec, vq.route, vq.method, op,
                                IF 1 \in StatedSampled(vq.spec, op) THEN 1 ELSE 0))

\* C11 (amended): the command has the Content-Type header and the body of
\* the first media type, in encounter order, for which a sample can be
\* generated; the media types before it are passed over, the ones after it
\* are not used; it has no content-type header or body when no media type
\* yields a sample.
C11_FirstSampledMediaType ==
    (vq.fn = "render_curl" /\ vout.done /\ vout.res # NotFound /\ vout.res # Raised) =>
        LET op      == FindOperation(vq.spec, vq.route, vq.method)
            sampled == StatedSampled(vq.spec, op)
        IN  GetN(vout.res, Key.curl) =
                JStr(StatedCurl(vq.spec, vq.route, vq.method, op,
                                IF sampled = {} THEN 0
                                ELSE CHOOSE i \in sampled : \A j \in sampled : i <= j))

\* C11 witness: render_curl has returned a command for an operation whose
\* first media type yields no sample and whose second one does.
C11_Witness ==
    /\ vq.fn = "render_curl" /\ vout.done
    /\ HasKey(vout.res, Key.curl)
    /\ LET op == FindOperation(vq.spec, vq.route, vq.method)
       IN  /\ Len(StatedMedia(op)) >= 2
           /\ 1 \notin StatedSampled(vq.spec, op)
           /\ 2 \in StatedSampled(vq.spec, op)

(***************************************************************************)
(* POST /choose: choose_endpoint and LLMChooser.choose                     *)
(***************************************************************************)
\* Documents of the service: operations on /a and /b that the pool's
\* candidates name, no path at all, and an operation whose parameter makes
\* find_candidates raise.  Only a document that main.py can index at import
\* is served.
ChooseSpecs ==
    {s \in { SpecOf(<< <<R_a, JDict(<< <<Str.get, OpSummary>>, <<Str.POST, OpBody>> >>)>>,
                       <<R_b, JDict(<< <<Str.get, OpBoth>> >>)>> >>),
             SpecOf(<<>>),
             SpecOf(<< <<R_a, JDict(<< <<Str.put, OpBadParam>> >>)>> >>),
             SpecOf(<< <<R_a, JDict(<< <<Key.parameters, JList(<<>>)>> >>)>> >>) } :
        SpecIndex(s).ok}

\* The body of a request: q, and candidates, where an omitted list, null
\* and [] all fail "if not candidates" and are the empty sequence.  A sent
\* candidate carries a route and a string method (CandPool).
ChooseRequests ==
    [q : {<<>>, <<"a">>}, candidates : CandLists, spec : ChooseSpecs]

ChooseInit ==
    /\ RankIdle /\ ResolveIdle /\ SampleIdle
    /\ req \in ChooseRequests
    /\ resp = NoResponse
    /\ candidates = <<>>
    /\ pc = "idle"
    /\ reply = FailedReply
    /\ text = Str.empty
    /\ calls = 0
    /\ choice = NoneChoice

\* choose_endpoint lines 102-110 and choose lines 62-66: an empty q is
\* refused; the caller's candidates are used when there are any, else those
\* of find_candidates(spec, q, top_k=10), whose exception ends the request;
\* an empty list returns "none" at once, otherwise the prompt is built and
\* _call_chat entered.  The question only goes into the prompt.
ChooseEnter ==
    /\ pc = "idle"
    /\ LET sent  == req.candidates # <<>>
           cands == IF sent THEN req.candidates
                    ELSE ChooserCands(FindCandidates(req.spec, req.q, 10))
       IN  IF req.q = Str.empty
           THEN /\ pc' = "failed"
                /\ resp' = BadRequest
                /\ UNCHANGED candidates
           ELSE IF ~sent /\ FindCandidatesRaises(req.spec, req.q)
           THEN /\ pc' = "failed"
                /\ resp' = ServerError
                /\ UNCHANGED candidates
           ELSE IF cands = <<>>
           THEN /\ pc' = "done"
                /\ resp' = Ok(ChooseBody(NoneChoice, SpecIndex(req.spec).v))
                /\ UNCHANGED candidates
           ELSE /\ pc' = "calling"
                /\ candidates' = cands
                /\ UNCHANGED resp
    /\ choice' = NoneChoice
    /\ UNCHANGED <<req, reply, text, calls>>
    /\ UNCHANGED <<rankVars, resolveVars, sampleVars>>

\* _call_chat returns, choose runs to its return statement (lines 69-102)
\* and choose_endpoint answers (lines 112-133)
ChooseReturn ==
    /\ pc = "calling"
    /\ \E r \in Replies :
         LET got == CallChat(r)
             chosen == ChooseFromText(got.text, candidates)
         IN  /\ reply' = r
             /\ text' = got.text
             /\ calls' = calls + got.posts
             /\ choice' = chosen
             /\ resp' = Ok(ChooseBody(chosen, SpecIndex(req.spec).v))
    /\ pc' = "done"
    /\ UNCHANGED <<req, candidates, rankVars, resolveVars, sampleVars>>

ChooseNext == ChooseEnter \/ ChooseReturn

SpecChoose == ChooseInit /\ [][ChooseNext]_vars

(***************************************************************************)
(* Properties of choose                                                    *)
(***************************************************************************)
\* The method normalization as section 4.4 step 4 words it: lower-case, the
\* part after the last "=", every character outside a-z dropped.
StatedMethod(tok) ==
    LET low == Lower(tok)
        eqs == {i \in 1..Len(low) : low[i] = "="}
        from == IF eqs = {} THEN 1
                ELSE (CHOOSE i \in eqs : \A j \in eqs : j <= i) + 1
    IN  SelectSeq(SubSeq(low, from, Len(low)), IsLower)

\* Steps 3-6 of section 4.4: the answer names a candidate of the list
StatedConfirmed(t, cands) ==
    LET parts == SplitWhitespace(t)
    IN  /\ Len(parts) >= 2
        /\ StatedMethod(parts[2]) \in VALID_METHODS
        /\ \E i \in 1..Len(cands) :
              /\ cands[i].route = parts[1]
              /\ Lower(cands[i].method) = StatedMethod(parts[2])

\* The fallback as section 4.4 states it: the first candidate of maximum
\* score, "none" when that score is <= 0.
StatedFallback(cands) ==
    LET top == CHOOSE i \in 1..Len(cands) :
                 /\ \A j \in 1..Len(cands) : ScoreOf(cands[j]) <= ScoreOf(cands[i])
                 /\ \A j \in 1..(i-1) : ScoreOf(cands[j]) < ScoreOf(cands[i])
    IN  IF ScoreOf(cands[top]) > 0
        THEN PairChoice(cands[top].route, cands[top].method)
        ELSE NoneChoice

\* C1: whatever the backend answers, choose returns "none" or a pair whose
\* route equals, and whose method equals case-insensitively, those of some
\* candidate of its input list.
C1_ChoiceIsCandidate ==
    pc = "done" =>
        \/ choice.none
        \/ \E i \in 1..Len(candidates) :
              /\ candidates[i].route = choice.route
              /\ Lower(candidates[i].method) = Lower(choice.method)

\* C1 witness: the model named a valid pair that is no candidate, and choose
\* returned a pair all the same.
C1_Witness ==
    /\ pc = "done"
    /\ ~choice.none
    /\ StartsWith(text, R_x)
    /\ \A i \in 1..Len(candidates) : candidates[i].route # R_x

\* C2 (as claimed): with the backend unreachable and a non-empty list,
\* choose returns the maximum-score candidate when its score is > 0 and
\* "none" when it is <= 0.
C2_UnreachableFallsBack ==
    (pc = "done" /\ ~reply.ok /\ candidates # <<>>) =>
        choice = StatedFallback(candidates)

\* C3 (as claimed): a non-empty answer that does not start with NONE and is
\* not confirmed gets the fallback: first maximum-score candidate if its
\* score is > 0, "none" otherwise.
C3_InvalidAnswerFallsBack ==
    (/\ pc = "done"
     /\ text # Str.empty
     /\ ~StartsWith(Upper(text), Str.NONE)
     /\ ~StatedConfirmed(text, candidates)) =>
        choice = StatedFallback(candidates)

\* C6 (as claimed): an answer of two or more tokens whose second token
\* normalizes to a valid method and whose pair matches a candidate is
\* returned as that route with the normalized method, without the fallback,
\* whatever the scores.
C6_ConfirmedAnswerReturned ==
    (pc = "done" /\ StatedConfirmed(text, candidates)) =>
        choice = PairChoice(SplitWhitespace(text)[1],
                            StatedMethod(SplitWhitespace(text)[2]))

\* C6 (amended): such an answer is returned as that route with the
\* normalized method, without the fallback, whatever the scores, when it
\* does not start with NONE in any letter case; one that does (the pair of
\* a candidate whose route is "none") is answered "none" by step 2 of
\* section 4.4 before any confirmation.
C6_ConfirmedNonNoneReturned ==
    (/\ pc = "done"
     /\ StatedConfirmed(text, candidates)
     /\ ~StartsWith(Upper(text), Str.NONE)) =>
        choice = PairChoice(SplitWhitespace(text)[1],
                            StatedMethod(SplitWhitespace(text)[2]))

\* C6 witness: a confirmed answer written "method=get", which does not
\* start with NONE, names a candidate that is not the one the fallback
\* would pick.
C6_Witness ==
    /\ pc = "done"
    /\ StatedConfirmed(text, candidates)
    /\ ~StartsWith(Upper(text), Str.NONE)
    /\ InSeq("=", text)
    /\ choice.route # MaxByScore(candidates).route
    /\ ScoreOf(MaxByScore(candidates)) > 0

\* C9: one execution of choose sends at most one request to the backend, a
\* failed request included, and none when the candidate list is empty, in
\* which case it returns "none".
C9_AtMostOneBackendCall ==
    /\ calls <= 1
    /\ candidates = <<>> => (calls = 0 /\ pc # "calling")
    /\ (candidates = <<>> /\ pc = "done") => choice.none

\* C9 witness: the request failed and choose has returned after that one
\* request.
C9_Witness ==
    pc = "done" /\ ~reply.ok /\ candidates # <<>> /\ calls = 1

\* All components: the two routes of main.py and the direct calls
Init == ChooseInit \/ RankInit \/ ResolveInit \/ SampleInit

Next == ChooseNext \/ RankNext \/ ResolveNext \/ SampleNext

Spec == Init /\ [][Next]_vars

=============================================================================
